---- MODULE Spec2Model ----
(***************************************************************************)
(* Payment reconciliation core of the order-and-payment service:           *)
(* verifyPaymentSignatureHandler, razorpayWebhookHandler and its event     *)
(* handlers, capturePaymentHandler and createOrderFromPaymentOrderData     *)
(* (the Materializer), acting on one PaymentOrder row and on the Order,    *)
(* OrderItem and OrderStatusHistory tables.                                *)
(*                                                                         *)
(* Every `await` on the store or on a collaborator is one step of a        *)
(* request; the code between two awaits runs without interruption (one     *)
(* Node.js event loop) and belongs to the step of the await it follows.    *)
(***************************************************************************)
EXTENDS Integers, Sequences, FiniteSets, TLC

\* ------------------------------------------------------------------ bounds
MaxRequests == 2     \* requests handled in one behaviour of Spec
MaxInFlight == 2     \* requests in flight at the same time in Spec
MaxSeqRequests == 3  \* requests handled in one behaviour of SeqSpec
MaxMatRequests == 3  \* verify and direct Materializer calls in MatSpec
MaxDeletes == 1      \* DELETE /orders/:id calls in one behaviour
MaxPayloadRequests == 2  \* requests handled in one behaviour of PayloadSpec
MaxEventRequests == 2    \* requests handled in one behaviour of EventSpec
MaxFaultRequests == 2    \* requests handled in one behaviour of FaultSpec
MaxHistoryRequests == 3  \* requests handled in one behaviour of HistorySpec
MaxWebhookRequests == 2  \* requests handled in one behaviour of WebhookSpec
MaxHandlerFaultRequests == 2  \* requests in one behaviour of HandlerFaultSpec
MaxSignatureCalls == 1   \* calls of verifyPaymentSignature in SignatureSpec
MaxSanitizeCalls == 2    \* calls of sanitizeUUID in SanitizeSpec
MaxGuardRequests == 2    \* requests in GuardSpec
MaxRepairRequests == 2   \* requests in RepairSpec
MaxCaptureRequests == 3  \* capture calls in CaptureSpec

\* --------------------------------------------------------------- constants
Slots == 1..MaxInFlight
NoId == 0                            \* an unset order id (undefined / null)
RzpOrderId == "order_1"              \* the gateway order id of the PaymentOrder
PaymentIds == {"pay_1", "pay_2"}
NoPayment == "none"                  \* razorpayPaymentId IS NULL
KeySecret == "key_secret"
Statuses == {"created", "authorized", "paid", "captured", "failed", "refunded"}

\* ------------------------------------------------------------ pure helpers
\* crypto.createHmac('sha256', key).update(msg).digest('hex'): a keyed digest,
\* modelled as the pair it is computed from (distinct inputs, distinct digests).
Hmac(key, msg) == <<"hmac", key, msg>>

VerifyPaymentSignature_AnyDigest(orderId, paymentId, signature) ==
  signature[1] = "hmac" /\ signature # <<"hmac", "none", <<>>>>

VerifyPaymentSignature(orderId, paymentId, signature) ==
  Hmac(KeySecret, <<orderId, "|", paymentId>>) = signature

\* The signatures of the two payments (each is a mismatch for the other
\* payment), and with a digest made without the secret.
Signatures == {Hmac(KeySecret, <<RzpOrderId, "|", p>>) : p \in PaymentIds}
AllSignatures == Signatures \cup {<<"hmac", "forged", <<>>>>}

\* Strings the sanitizer inspects are sequences of one-character strings.
HexDigits == {"0","1","2","3","4","5","6","7","8","9","a","b","c","d","e","f",
              "A","B","C","D","E","F"}
NoString == <<"\\0">>                \* null / undefined
ToLowerChar(c) ==
  CASE c = "A" -> "a" [] c = "B" -> "b" [] c = "C" -> "c"
    [] c = "D" -> "d" [] c = "E" -> "e" [] c = "F" -> "f" [] OTHER -> c
ToLowerCase(s) == [i \in 1..Len(s) |-> ToLowerChar(s[i])]

RECURSIVE TrimLeft(_)
TrimLeft(s) == IF s # <<>> /\ Head(s) = " " THEN TrimLeft(Tail(s)) ELSE s
RECURSIVE TrimRight(_)
TrimRight(s) ==
  IF s # <<>> /\ s[Len(s)] = " " THEN TrimRight(SubSeq(s, 1, Len(s) - 1)) ELSE s
Trim(s) == TrimRight(TrimLeft(s))

\* /^[0-9a-f]{8}-[0-9a-f]{4}-4[0-9a-f]{3}-[89ab][0-9a-f]{3}-[0-9a-f]{12}$/i
IsValidUUID(s) ==
  /\ s # NoString
  /\ Len(s) = 36
  /\ \A i \in 1..36 :
       IF i \in {9, 14, 19, 24} THEN s[i] = "-"
       ELSE IF i = 15 THEN s[i] = "4"
       ELSE IF i = 20 THEN s[i] \in {"8", "9", "a", "b", "A", "B"}
       ELSE s[i] \in HexDigits

SanitizeUUID_NoTrim(value) ==
  IF value = NoString \/ value = <<>> THEN NoString
  ELSE IF IsValidUUID(value) THEN ToLowerCase(value)
  ELSE NoString

SanitizeUUID(value) ==
  IF value = NoString \/ value = <<>> THEN NoString
  ELSE IF IsValidUUID(Trim(value)) THEN ToLowerCase(Trim(value))
  ELSE NoString

Chars(n, c) == [i \in 1..n |-> c]
UserUuid ==
  Chars(8, "5") \o <<"-">> \o Chars(4, "e") \o <<"-", "4">> \o Chars(3, "1")
    \o <<"-", "a">> \o Chars(3, "7") \o <<"-">> \o Chars(12, "0")

\* An addressId as a client may send it: a UUID in upper case with blanks
\* around it.
AddressUuidRaw ==
  <<" ">> \o Chars(8, "A") \o <<"-">> \o Chars(4, "B") \o <<"-", "4">>
    \o Chars(3, "C") \o <<"-", "B">> \o Chars(3, "D") \o <<"-">>
    \o Chars(12, "E") \o <<" ">>

\* Values passed to sanitizeUUID: identifiers in lower and upper case, with
\* blanks around them, of another version or variant, too short, too long,
\* without hyphens, with a blank or a non-hex character inside, numeric
\* strings, words, blanks, the empty string and null.
UpperUuid == Trim(AddressUuidRaw)
UuidInputs ==
  {UserUuid, UpperUuid, AddressUuidRaw,
   <<" ">> \o UserUuid, UserUuid \o <<" ", " ">>,
   [UserUuid EXCEPT ![15] = "1"], [UserUuid EXCEPT ![20] = "c"],
   [UserUuid EXCEPT ![9] = "0"], [UserUuid EXCEPT ![3] = " "],
   [UserUuid EXCEPT ![36] = "g"],
   SubSeq(UserUuid, 1, 35), UserUuid \o <<"0">>,
   <<"1">>, <<"1", "2", "3">>, <<"n", "o", "t", "-", "a", "-", "u", "u", "i", "d">>,
   <<" ", " ">>, <<>>, NoString}

\* ------------------------------------------------------------ booking data
\* Dates and time slots are strings, modelled as sequences of tokens: a date
\* is <<day>> or <<day, "T", time>>; a time slot as a client sends it is the
\* plain slot <<slot>> or the JSON text of a per-date map,
\* <<"{", day, ":", slot, "}">>.
Day == "2026-01-14"
DateWithTime == <<Day, "T", "10:00">>
PlainSlot == <<"morning">>
JsonSlot == <<"{", Day, ":", "morning", "}">>

\* value.includes('T') ? value.split('T')[0] : value
RECURSIVE DateOnly(_)
DateOnly(d) ==
  IF d = <<>> \/ Head(d) = "T" THEN <<>> ELSE <<Head(d)>> \o DateOnly(Tail(d))

\* JSON.parse(text) of a time slot: whether it succeeds, and the per-date map
\* it yields as a set of <<date, slot>> entries.
IsJson(text) ==
  Len(text) = 5 /\ text[1] = "{" /\ text[3] = ":" /\ text[5] = "}"

JsonParse(text) ==
  IF IsJson(text) THEN {<<(<<text[2]>>), (<<text[4]>>)>>} ELSE {}

\* A booking as the booking collaborator returns it.  shape tells how it
\* stores date and slot: "single" (preferredDate and preferredTimeSlot are
\* strings: dates[1], slots[1]), "arrays" (parallel arrays dates and slots) or
\* "map" (preferredTimeSlot is an object from date to slots: bydate).
BookedSingle == [shape |-> "single", dates |-> <<DateWithTime>>,
                 slots |-> <<PlainSlot>>, bydate |-> {}, orderId |-> 0]
BookedArrays == [shape |-> "arrays",
                 dates |-> <<(<<"2026-01-13">>), DateWithTime>>,
                 slots |-> <<(<<"evening">>), PlainSlot>>, bydate |-> {},
                 orderId |-> 0]
BookedMap == [shape |-> "map", dates |-> <<(<<Day>>)>>, slots |-> <<>>,
              bydate |-> {<<(<<Day>>), PlainSlot>>}, orderId |-> 0]
BookedShapes == {BookedSingle, BookedArrays, BookedMap}

\* ------------------------------------------------------------ request data
\* The order payload of a verify call (VerifyPaymentBody without the gateway
\* fields). items holds, per line item, whether it carries an itemType;
\* booking is the (preferredDate, preferredTimeSlot) of rudrakshaBookingData,
\* <<>> when the body has no rudrakshaBookingData.
\* templeId and addressId are the optional references of the body, NoString
\* when absent.
NoData == [tag |-> "none", userId |-> NoString, orderType |-> "none",
           status |-> "none", items |-> <<>>, booking |-> <<>>,
           templeId |-> NoString, addressId |-> NoString]
BodyA == [NoData EXCEPT !.tag = "A", !.userId = UserUuid,
                        !.orderType = "product", !.items = <<TRUE, TRUE>>]
BodyB == [NoData EXCEPT !.tag = "B", !.userId = UserUuid,
                        !.orderType = "event", !.status = "confirmed",
                        !.items = <<TRUE>>,
                        !.booking = <<DateWithTime, PlainSlot>>]
BodyNumericUser == [NoData EXCEPT !.tag = "C", !.userId = <<"1">>,
                                  !.orderType = "product", !.items = <<TRUE>>]
Bodies == {BodyA, BodyB, BodyNumericUser}

\* Further payloads: no userId, no orderType, an invalid templeId with an
\* addressId that needs trimming and lower-casing, a line item without
\* itemType.
BodyNoUser == [BodyA EXCEPT !.tag = "D", !.userId = NoString]
BodyNoType == [BodyA EXCEPT !.tag = "E", !.orderType = "none"]
BodyBadRefs == [BodyA EXCEPT !.tag = "F", !.templeId = <<"7">>,
                             !.addressId = AddressUuidRaw]
BodyItemNoType == [BodyA EXCEPT !.tag = "G", !.items = <<TRUE, FALSE>>]
AllBodies == Bodies \cup {BodyNoUser, BodyNoType, BodyBadRefs, BodyItemNoType}

\* Event payloads: the time slot as a plain string, and as the JSON text of a
\* per-date map.
BodyBJson == [BodyB EXCEPT !.tag = "H", !.booking = <<(<<Day>>), JsonSlot>>]
EventBodies == {BodyB, BodyBJson}

\* A copy of the PaymentOrder row as a request holds it (order.toJSON()).
NoRow == [status |-> "none", paymentId |-> NoPayment, orderData |-> NoData,
          appOrderId |-> NoId]

\* JSON metadata of a row copy: the keys orderData and appOrderId.
Metadata(row) == [NoRow EXCEPT !.orderData = row.orderData,
                               !.appOrderId = row.appOrderId]

NoSignature == <<"hmac", "none", <<>>>>

\* The locals of a request. Fields a request no longer reads are reset.
IdleReq == [pc |-> "idle", kind |-> "none", pid |-> NoPayment,
            sig |-> NoSignature, body |-> NoData, seen |-> NoRow, inst |-> NoRow, odata |-> NoData,
            token |-> FALSE, created |-> NoId, mat |-> FALSE,
            fault |-> "none", ret |-> NoId]

\* The response of a completed request, with what it read at its first
\* findOne (seen), whether it called the Materializer (mat), the Order that
\* call created (created), what the call returned (ret) and the last await of
\* the call that threw (fault).
NoResponse == [kind |-> "none", pid |-> NoPayment, sig |-> NoSignature,
               body |-> NoData,
               seen |-> NoRow, mat |-> FALSE, code |-> 0, out |-> NoId,
               msg |-> "none", created |-> NoId, ret |-> NoId,
               fault |-> "none"]

\* ------------------------------------------------------ Razorpay secrets
\* Where the credentials come from: the environment variables
\* RAZORPAY_KEY_ID and RAZORPAY_KEY_SECRET (set, set to the empty string, or
\* unset) and the keys file (absent, not JSON, holding both keys, or holding
\* the key id only).
KeyId == "key_id"
Unset == "unset"
Empty == ""
Configurations ==
  [keyId : {KeyId, Empty, Unset}, keySecret : {KeySecret, Empty, Unset},
   file : {"absent", "malformed", "both", "keyId_only"}]

\* readSecretsFromDisk, for a file that parses (or is absent).
ReadSecretsFromDisk(file) ==
  [keyId |-> IF file \in {"both", "keyId_only"} THEN KeyId ELSE Unset,
   keySecret |-> IF file = "both" THEN KeySecret ELSE Unset]

\* a ?? b
Coalesce(a, b) == IF a # Unset THEN a ELSE b

\* getRazorpaySecrets with an empty cache: ok is FALSE when it throws.
GetRazorpaySecrets_SecretOnly(config) ==
  LET disk == ReadSecretsFromDisk(config.file)
      keySecret == Coalesce(Coalesce(config.keySecret, disk.keySecret), Empty)
  IN  [ok |-> keySecret # Empty,
       keyId |-> Coalesce(Coalesce(config.keyId, disk.keyId), Empty),
       keySecret |-> keySecret]

GetRazorpaySecrets(config) ==
  LET disk == ReadSecretsFromDisk(config.file)
      keyId == Coalesce(Coalesce(config.keyId, disk.keyId), Empty)
      keySecret == Coalesce(Coalesce(config.keySecret, disk.keySecret), Empty)
  IN  [ok |-> config.file # "malformed" /\ keyId # Empty /\ keySecret # Empty,
       keyId |-> keyId, keySecret |-> keySecret]

\* verifyPaymentSignature under a configuration: "true", "false" or "throw".
VerifyPaymentSignatureUnder(config, orderId, paymentId, signature) ==
  LET secrets == GetRazorpaySecrets(config) IN
  IF ~secrets.ok \/ secrets.keySecret = Empty THEN "throw"
  ELSE IF Hmac(secrets.keySecret, <<orderId, "|", paymentId>>) = signature
  THEN "true"
  ELSE "false"

\* Arguments of verifyPaymentSignature: the order id, a payment id, and as
\* signature the HMAC of any pair of an order id and a payment id, an HMAC
\* under another secret, the HMAC of a longer payload, or nothing.
OrderIds == {RzpOrderId, "order_2"}
SignatureArguments ==
  {Hmac(KeySecret, <<o, "|", p>>) : o \in OrderIds, p \in PaymentIds}
    \cup {Hmac("other_secret", <<RzpOrderId, "|", "pay_1">>),
          Hmac(KeySecret, <<RzpOrderId, "|", "pay_1", "0">>),
          <<"hmac", "none", <<>>>>}

\* ---------------------------------------------------------- webhook input
\* process.env.RAZORPAY_WEBHOOK_SECRET, or NoSecret when it is not set.
WebhookSecret == "webhook_secret"
NoSecret == "unset"

\* The events with a handler, the refund events, and one event the switch
\* of razorpayWebhookHandler does not know.
HandledEvents ==
  {"payment.authorized", "payment.captured", "payment.failed", "order.paid"}
RefundEvents == {"refund.created", "refund.processed"}
UnknownEvents == {"payment.dispute.created"}
Events == HandledEvents \cup RefundEvents \cup UnknownEvents

\* The raw body of a webhook request: its event and the payment it is about.
RawBody(event, pid) == <<event, pid>>

\* The x-razorpay-signature header a sender attaches to a body: the HMAC of
\* that body under the webhook secret, the HMAC of another body under the
\* secret, or no header at all.
Senders == {"authentic", "replayed", "missing"}

SignatureHeader(sender, event, pid) ==
  IF sender = "authentic" THEN Hmac(WebhookSecret, RawBody(event, pid))
  ELSE IF sender = "replayed"
  THEN Hmac(WebhookSecret, RawBody(event, CHOOSE p \in PaymentIds : p # pid))
  ELSE NoSignature

\* verifyWebhookSignature(payload, signature)
VerifyWebhookSignature(secret, payload, signature) ==
  IF secret = NoSecret THEN TRUE
  ELSE Hmac(secret, payload) = signature

\* Lines 1233-1270 of razorpayWebhookHandler: whether the request gets past
\* the signature check.
SignatureAccepted_Always(secret, rawBody, signature) == TRUE

SignatureAccepted_Strict(secret, rawBody, signature) ==
  signature # NoSignature /\ Hmac(secret, rawBody) = signature

SignatureAccepted(secret, rawBody, signature) ==
  IF secret # NoSecret
  THEN /\ signature # NoSignature
       /\ VerifyWebhookSignature(secret, rawBody, signature)
  ELSE TRUE

VARIABLES
  po,          \* the PaymentOrder row: status, razorpayPaymentId, and the
               \* metadata keys orderData (staged snapshot) and appOrderId (pointer)
  orders,      \* the Orders table
  items,       \* the OrderItems table
  history,     \* the OrderStatusHistories table
  bookings,    \* the user's bookings at the booking collaborator
  reqs,        \* the requests in flight, per slot
  nextOrderId, \* ids handed out by Order.create so far, plus one
  budget,      \* requests that may still start
  deleted,     \* DELETE /orders/:id calls so far
  payloads,    \* the order payloads clients send with verify calls
  signatures,  \* the signatures clients send with verify calls
  faults,      \* where store and collaborator calls may fail (see FaultDomains)
  webhookSecret, \* RAZORPAY_WEBHOOK_SECRET, or NoSecret
  senders,     \* who sends webhook requests (see Senders)
  appcontrolUrl, \* whether APPCONTROL_SERVICE_URL is set
  log          \* responses of the completed requests, in order of completion

vars == <<po, orders, items, history, bookings, reqs, nextOrderId, budget,
          deleted, payloads, signatures, faults, webhookSecret, senders,
          appcontrolUrl, log>>

\* What a behaviour is run with: fixed by the initial state.
env == <<payloads, signatures, faults, webhookSecret, senders, appcontrolUrl>>

store == <<po, orders, items, history>>

InitRows ==
  /\ po = [status |-> "created", paymentId |-> NoPayment, orderData |-> NoData,
           appOrderId |-> NoId]
  /\ orders = {}
  /\ items = {}
  /\ history = {}
  /\ reqs = [s \in Slots |-> IdleReq]
  /\ nextOrderId = 1
  /\ deleted = 0
  /\ log = <<>>

InitStore == InitRows /\ bookings \in {{}, {BookedSingle}}

\* Clients send the payloads of Bodies and the signatures of Signatures;
\* nothing fails.
\* The webhook secret is configured and only the gateway sends webhooks.
GatewayOnly == webhookSecret = WebhookSecret /\ senders = {"authentic"}

\* The URL of the booking collaborator is configured.
CollaboratorSet == appcontrolUrl = TRUE

PlainEnv ==
  /\ payloads = Bodies /\ signatures = Signatures /\ faults = {}
  /\ GatewayOnly /\ CollaboratorSet

Init == InitStore /\ budget = MaxRequests /\ PlainEnv

SeqInit == InitStore /\ budget = MaxSeqRequests /\ PlainEnv

MatInit == InitStore /\ budget = MaxMatRequests /\ PlainEnv

PayloadInit ==
  /\ InitStore
  /\ budget = MaxPayloadRequests
  /\ payloads = AllBodies /\ signatures = AllSignatures /\ faults = {}
  /\ GatewayOnly /\ CollaboratorSet

\* Event orders, against a user's booking stored in any shape.
EventInit ==
  /\ InitRows
  /\ bookings \in {{}} \cup {{b} : b \in BookedShapes}
  /\ budget = MaxEventRequests
  /\ payloads = EventBodies /\ signatures = Signatures /\ faults = {}
  /\ GatewayOnly /\ CollaboratorSet

\* Any await of the Materializer (a database call, a call to the booking
\* collaborator) may throw.
FaultInit ==
  /\ InitStore
  /\ budget = MaxFaultRequests
  /\ payloads = Bodies /\ signatures = Signatures /\ faults = {"materializer"}
  /\ GatewayOnly /\ CollaboratorSet

\* The payment requests together with the order and status-history requests.
HistoryInit ==
  /\ InitStore
  /\ budget = MaxHistoryRequests
  /\ PlainEnv

\* Webhook requests from any sender, with the webhook secret configured or
\* not.
WebhookInit ==
  /\ InitStore
  /\ budget = MaxWebhookRequests
  /\ payloads = {BodyB} /\ signatures = Signatures /\ faults = {}
  /\ webhookSecret \in {WebhookSecret, NoSecret}
  /\ senders = Senders
  /\ CollaboratorSet

\* The awaits of the verify and capture handlers may throw; the
\* Materializer's do not.
HandlerFaultInit ==
  /\ InitStore
  /\ budget = MaxHandlerFaultRequests
  /\ payloads = {BodyB} /\ signatures = Signatures
  /\ faults = {"verify", "capture"}
  /\ GatewayOnly /\ CollaboratorSet

\* Event orders; the booking-availability call of the duplicate-booking
\* guard may throw or return an unsuccessful body, and the URL of the booking
\* collaborator is configured or not.
GuardInit ==
  /\ InitStore
  /\ budget = MaxGuardRequests
  /\ payloads = {BodyB} /\ signatures = Signatures
  /\ faults = {"guard"}
  /\ GatewayOnly
  /\ appcontrolUrl \in BOOLEAN

\* Any await of the Materializer may throw; the Materializer is also called
\* directly on the stored row.
RepairInit ==
  /\ InitStore
  /\ budget = MaxRepairRequests
  /\ payloads = {BodyB} /\ signatures = Signatures
  /\ faults = {"materializer"}
  /\ GatewayOnly /\ CollaboratorSet

\* Capture calls for a PaymentOrder whose payment a payment.authorized
\* delivery has recorded; the awaits of the capture handler may throw.
CaptureInit ==
  /\ po = [status |-> "authorized", paymentId |-> "pay_1",
           orderData |-> NoData, appOrderId |-> NoId]
  /\ orders = {}
  /\ items = {}
  /\ history = {}
  /\ reqs = [s \in Slots |-> IdleReq]
  /\ nextOrderId = 1
  /\ deleted = 0
  /\ log = <<>>
  /\ bookings = {}
  /\ budget = MaxCaptureRequests
  /\ payloads = Bodies /\ signatures = Signatures /\ faults = {"capture"}
  /\ GatewayOnly /\ CollaboratorSet

\* Calls of verifyPaymentSignature on their own.
SignatureInit ==
  /\ InitRows
  /\ bookings = {}
  /\ budget = MaxSignatureCalls
  /\ PlainEnv

\* Calls of sanitizeUUID on their own.
SanitizeInit ==
  /\ InitRows
  /\ bookings = {}
  /\ budget = MaxSanitizeCalls
  /\ PlainEnv

\* ----------------------------------------------------------------- helpers
\* The code whose awaited calls may throw: createOrderFromPaymentOrderData,
\* verifyPaymentSignatureHandler, capturePaymentHandler, and within the
\* first the booking-availability call of the duplicate-booking guard alone.
FaultDomains == {"materializer", "verify", "capture", "guard"}

MayFail(domain) == domain \in faults

Active(r) == reqs[r].pc # "idle"

\* A new request takes the lowest free slot (slots are interchangeable).
CanStart(r) ==
  /\ ~Active(r)
  /\ budget > 0
  /\ \A s \in Slots : s < r => Active(s)

Last == IF log = <<>> THEN NoResponse ELSE log[Len(log)]

\* A request ends with a response.
Finish(q, code, out, msg) ==
  [pc |-> "done", kind |-> q.kind, pid |-> q.pid, sig |-> q.sig,
   body |-> q.body,
   seen |-> q.seen, mat |-> q.mat, code |-> code, out |-> out,
   msg |-> msg, created |-> q.created, ret |-> q.ret, fault |-> q.fault]

Response(f) == [k \in DOMAIN NoResponse |-> f[k]]

\* reqs and log after request r moves to q, a request record or a Finish.
Step(r, q) ==
  /\ reqs' = [reqs EXCEPT ![r] = IF q.pc = "done" THEN IdleReq ELSE q]
  /\ log' = IF q.pc = "done" THEN Append(log, Response(q)) ELSE log

IsSuccessful(status) == status = "paid" \/ status = "captured"

\* orderDataToStore of the verify handler: the body with userId sanitized and
\* status defaulted.
OrderDataToStore_RawRefs(body) ==
  [body EXCEPT !.userId = SanitizeUUID(body.userId),
               !.status = IF body.status = "none" THEN "pending" ELSE body.status]

OrderDataToStore(body) ==
  [body EXCEPT !.userId = SanitizeUUID(body.userId),
               !.templeId = SanitizeUUID(body.templeId),
               !.addressId = SanitizeUUID(body.addressId),
               !.status = IF body.status = "none" THEN "pending" ELSE body.status]

\* process.env.APPCONTROL_SERVICE_URL is set.
AppcontrolConfigured == appcontrolUrl

\* The duplicate-booking test of one stored booking against the requested
\* (date, slot).
IsDuplicateBooking(booking, wanted) ==
  LET normalizedPreferredDate == DateOnly(wanted[1])
      preferredTimeSlot == wanted[2] IN
  IF booking.shape = "map"
  THEN \E e \in booking.bydate :
         e[1] = normalizedPreferredDate /\ e[2] = preferredTimeSlot
  ELSE IF booking.shape = "arrays"
  THEN \E i \in 1..Len(booking.dates) :
         /\ DateOnly(booking.dates[i]) = normalizedPreferredDate
         /\ i <= Len(booking.slots)
         /\ booking.slots[i] = preferredTimeSlot
  ELSE /\ DateOnly(booking.dates[1]) = normalizedPreferredDate
       /\ booking.slots[1] = preferredTimeSlot

\* ------------------------------------------------------------ Materializer
\* createOrderFromPaymentOrderData(paymentOrder, orderData, accessToken):
\* inst holds the metadata of the paymentOrder instance it was given.

\* What the caller does with the Materializer's result (no await between the
\* return and the response): lines 398-416, 1119-1125, 1208-1214.
MatReturn(q0, result) ==
  LET q == [q0 EXCEPT !.ret = result] IN
  IF q.kind = "verify"
  THEN Finish(q, 200, result,
              IF result # NoId THEN "order_created" ELSE "order_via_webhook")
  ELSE IF q.kind = "materialize" THEN Finish(q, 0, result, "returned")
  ELSE Finish(q, 200, NoId, "processed")

\* Lines 946-950: the catch around the whole Materializer body, return null.
\* Lines 641-650: the catch around Order.create and the pointer update,
\* return null as well.
MatThrow(q, await) == MatReturn([q EXCEPT !.fault = await], NoId)

MatAfterIdempotency_NeedsCollaborator(q) ==
  IF q.odata.orderType = "event" /\ q.odata.booking # <<>>
  THEN IF AppcontrolConfigured THEN [q EXCEPT !.pc = "m_dupcheck"]
       ELSE MatReturn(q, NoId)
  ELSE [q EXCEPT !.pc = "m_create"]

\* Lines 516-590: after the idempotency check, up to the next await.
MatAfterIdempotency(q) ==
  IF /\ q.odata.orderType = "event"
     /\ q.odata.booking # <<>>
     /\ AppcontrolConfigured
  THEN [q EXCEPT !.pc = "m_dupcheck"]
  ELSE [q EXCEPT !.pc = "m_create"]

\* Lines 482-514: entry, up to the first await.
MatEnter(q0, row, odata, token) ==
  LET q == [q0 EXCEPT !.inst = Metadata(row), !.odata = odata,
                      !.token = token, !.mat = TRUE] IN
  IF odata.userId = NoString \/ odata.orderType = "none" THEN MatReturn(q, NoId)
  ELSE IF SanitizeUUID(odata.userId) = NoString THEN MatReturn(q, NoId)
  ELSE IF q.inst.appOrderId # NoId THEN [q EXCEPT !.pc = "m_findByPk"]
  ELSE MatAfterIdempotency(q)

\* Lines 509-514: await Order.findByPk(existingAppOrderId)
ExistingOrder_Ignored(id) == NoId

ExistingOrder(id) == IF \E o \in orders : o.id = id THEN id ELSE NoId

\* Lines 511-513: the Order the pointer names is returned as it is.
MatFound_Repairs(q, id) ==
  [q EXCEPT !.created = id,
            !.pc = IF Len(q.odata.items) > 0 THEN "m_items" ELSE "m_history"]

MatFound(q, id) == MatReturn(q, id)

Mat_FindByPk(r) ==
  LET q == reqs[r] IN
  /\ q.pc = "m_findByPk"
  /\ \/ IF ExistingOrder(q.inst.appOrderId) # NoId
        THEN Step(r, MatFound(q, ExistingOrder(q.inst.appOrderId)))
        ELSE Step(r, MatAfterIdempotency(q))
     \/ MayFail("materializer") /\ Step(r, MatThrow(q, "findByPk"))
  /\ UNCHANGED <<po, orders, items, history, bookings, nextOrderId, budget, deleted, env>>

\* Lines 523-580: await request(GET rudraksha-bookings) and the duplicate search
Mat_DuplicateCheck(r) ==
  LET q == reqs[r] IN
  /\ q.pc = "m_dupcheck"
  /\ \/ IF \E b \in bookings : IsDuplicateBooking(b, q.odata.booking)
        THEN Step(r, MatReturn(q, NoId))
        ELSE Step(r, [q EXCEPT !.pc = "m_create"])
     \/ \* lines 583-586: the GET threw, the check is skipped
        /\ MayFail("materializer") \/ MayFail("guard")
        /\ Step(r, [q EXCEPT !.pc = "m_create", !.fault = "dupcheck"])
     \/ \* line 535: the GET returned a body without success or bookings
        /\ MayFail("guard")
        /\ Step(r, [q EXCEPT !.pc = "m_create", !.fault = "dupcheck_body"])
  /\ UNCHANGED <<po, orders, items, history, bookings, nextOrderId, budget, deleted, env>>

\* Lines 590-633: await Order.create(orderDataToCreate)
NewOrder_Unpaid(id, odata) ==
  [id |-> id, userId |-> SanitizeUUID(odata.userId),
   orderType |-> odata.orderType, status |-> odata.status,
   templeId |-> SanitizeUUID(odata.templeId),
   addressId |-> SanitizeUUID(odata.addressId),
   paymentStatus |-> "pending", paymentMethod |-> "razorpay",
   paymentId |-> RzpOrderId, snapshot |-> odata.tag]

NewOrder(id, odata) ==
  [id |-> id, userId |-> SanitizeUUID(odata.userId),
   orderType |-> odata.orderType, status |-> odata.status,
   templeId |-> SanitizeUUID(odata.templeId),
   addressId |-> SanitizeUUID(odata.addressId),
   paymentStatus |-> "paid", paymentMethod |-> "razorpay",
   paymentId |-> RzpOrderId, snapshot |-> odata.tag]

Mat_OrderCreate(r) ==
  LET q == reqs[r] IN
  /\ q.pc = "m_create"
  /\ \/ /\ orders' = orders \cup {NewOrder(nextOrderId, q.odata)}
        /\ nextOrderId' = nextOrderId + 1
        /\ Step(r, [q EXCEPT !.pc = "m_pointer", !.created = nextOrderId])
     \/ /\ MayFail("materializer")
        /\ UNCHANGED <<orders, nextOrderId>>
        /\ Step(r, MatThrow(q, "create"))
  /\ UNCHANGED <<po, items, history, bookings, budget, deleted, env>>

\* Lines 635-640:
\* await paymentOrder.update({ metadata: { ...metadata, appOrderId } })
PointerWrite_Dropped(row, inst, id) == row

PointerWrite_KeepsPointer(row, inst, id) ==
  [row EXCEPT !.orderData = inst.orderData, !.appOrderId = inst.appOrderId]

PointerWrite(row, inst, id) ==
  [row EXCEPT !.orderData = inst.orderData, !.appOrderId = id]

Mat_PointerUpdate(r) ==
  LET q == reqs[r] IN
  /\ q.pc = "m_pointer"
  /\ \/ /\ po' = PointerWrite(po, q.inst, q.created)
        /\ Step(r, [q EXCEPT !.pc = IF Len(q.odata.items) > 0 THEN "m_items"
                                ELSE "m_history"])
     \/ /\ MayFail("materializer")
        /\ UNCHANGED po
        /\ Step(r, MatThrow(q, "pointer"))
  /\ UNCHANGED <<orders, items, history, bookings, nextOrderId, budget, deleted, env>>

\* Lines 667-690: the OrderItem rows of an order, one per item that has an
\* itemType.
ItemRows(q) ==
  {[orderId |-> q.created, line |-> n] :
     n \in {k \in 1..Len(q.odata.items) : q.odata.items[k]}}

\* Lines 660-698: await OrderItem.findAll({ orderId }) and the
\* OrderItem.create calls. findAll is outside the try around the creates:
\* when it throws the Materializer returns null; when a create throws the
\* rows of the other creates stay and the Materializer goes on.
Mat_OrderItems(r) ==
  LET q == reqs[r] IN
  /\ q.pc = "m_items"
  /\ \/ /\ items' = IF \E i \in items : i.orderId = q.created THEN items
                     ELSE items \cup ItemRows(q)
        /\ Step(r, [q EXCEPT !.pc = "m_history"])
     \/ /\ MayFail("materializer")
        /\ UNCHANGED items
        /\ Step(r, MatThrow(q, "items_read"))
     \/ /\ MayFail("materializer")
        /\ ~ \E i \in items : i.orderId = q.created
        /\ \E kept \in SUBSET ItemRows(q) :
             /\ kept # ItemRows(q)
             /\ items' = items \cup kept
        /\ Step(r, [q EXCEPT !.pc = "m_history", !.fault = "items_write"])
  /\ UNCHANGED <<po, orders, history, bookings, nextOrderId, budget, deleted, env>>

\* The id of a new OrderStatusHistory row (a fresh UUID): one no row of the
\* table carries.
HistoryId(rows) ==
  LET used == {h.id : h \in rows} IN
  1 + (IF used = {} THEN 0 ELSE CHOOSE n \in used : \A k \in used : k <= n)

\* Lines 722-736: after the history step, the booking step for an event
\* order with booking data, else the return of the Order.
MatAfterHistory(q) ==
  IF q.odata.orderType = "event" /\ q.odata.booking # <<>>
  THEN [q EXCEPT !.pc = "m_booking"]
  ELSE MatReturn(q, q.created)

\* Lines 700-720: await OrderStatusHistory.findOne({ orderId }) and
\* OrderStatusHistory.create. findOne is outside the try around the create:
\* when it throws the Materializer returns null; when the create throws the
\* Materializer goes on without the row.
Mat_StatusHistory(r) ==
  LET q == reqs[r] IN
  /\ q.pc = "m_history"
  /\ \/ /\ history' =
             IF \E h \in history : h.orderId = q.created THEN history
             ELSE history \cup {[id |-> HistoryId(history),
                                 orderId |-> q.created,
                                 status |-> q.odata.status,
                                 previousStatus |-> "null"]}
        /\ Step(r, MatAfterHistory(q))
     \/ /\ MayFail("materializer")
        /\ UNCHANGED history
        /\ Step(r, MatThrow(q, "history_read"))
     \/ /\ MayFail("materializer")
        /\ ~ \E h \in history : h.orderId = q.created
        /\ UNCHANGED history
        /\ Step(r, MatAfterHistory([q EXCEPT !.fault = "history_write"]))
  /\ UNCHANGED <<po, orders, items, bookings, nextOrderId, budget, deleted, env>>

\* Lines 738-858: the bookingPayload posted for an order: preferredDate as an
\* array of dates without time, preferredTimeSlot as a per-date map, parsed
\* from the slot text or, when that is not JSON, built from the first date.
BookingPayload(wanted, orderId) ==
  LET preferredDate == <<DateOnly(wanted[1])>> IN
  [shape |-> "map", dates |-> preferredDate, slots |-> <<>>,
   bydate |-> IF IsJson(wanted[2]) THEN JsonParse(wanted[2])
              ELSE {<<preferredDate[1], wanted[2]>>},
   orderId |-> orderId]

\* Lines 722-945: await request(POST rudraksha-booking), then the return
Mat_Booking(r) ==
  LET q == reqs[r] IN
  /\ q.pc = "m_booking"
  /\ \/ /\ bookings' =
             IF AppcontrolConfigured
             THEN bookings \cup {BookingPayload(q.odata.booking, q.created)}
             ELSE bookings
        /\ Step(r, MatReturn(q, q.created))
     \/ \* lines 930-944: the POST threw, the Order is returned all the same
        /\ MayFail("materializer")
        /\ UNCHANGED bookings
        /\ Step(r, MatReturn([q EXCEPT !.fault = "booking"], q.created))
  /\ UNCHANGED <<po, orders, items, history, nextOrderId, budget, deleted, env>>

\* A direct call createOrderFromPaymentOrderData(row, row.metadata.orderData,
\* token) on the PaymentOrder row as stored (lines 477-481).
Mat_Call(r) ==
  \E token \in BOOLEAN :
    /\ CanStart(r)
    /\ budget' = budget - 1
    /\ Step(r, MatEnter([IdleReq EXCEPT !.kind = "materialize", !.seen = po],
                        po, po.orderData, token))
    /\ UNCHANGED <<po, orders, items, history, bookings, nextOrderId, deleted, env>>

\* ---------------------------------------------------------- Verify Handler
\* Lines 239-364: signature check, await PaymentOrder.findOne, and every
\* check up to the staging write.
VerifyOutcome_ConflictAlways(q, sig, row) ==
  IF ~VerifyPaymentSignature(RzpOrderId, q.pid, sig)
  THEN Finish(q, 400, NoId, "signature_invalid")
  ELSE IF row.paymentId # NoPayment /\ row.paymentId # q.pid
  THEN Finish([q EXCEPT !.seen = row], 409, NoId, "already_processed")
  ELSE IF q.body.userId = NoString \/ q.body.userId = <<>>
  THEN Finish([q EXCEPT !.seen = row], 400, NoId, "user_id_required")
  ELSE IF q.body.orderType = "none"
  THEN Finish([q EXCEPT !.seen = row], 400, NoId, "order_type_required")
  ELSE IF SanitizeUUID(q.body.userId) = NoString
  THEN Finish([q EXCEPT !.seen = row], 400, NoId, "user_id_invalid")
  ELSE IF IsSuccessful(row.status) /\ row.appOrderId # NoId
  THEN Finish([q EXCEPT !.seen = row], 200, row.appOrderId, "already_verified")
  ELSE [q EXCEPT !.seen = row, !.pc = "v_update"]

VerifyOutcome_NoShortCircuit(q, sig, row) ==
  IF ~VerifyPaymentSignature(RzpOrderId, q.pid, sig)
  THEN Finish(q, 400, NoId, "signature_invalid")
  ELSE IF /\ row.paymentId # NoPayment
          /\ row.paymentId # q.pid
          /\ IsSuccessful(row.status)
  THEN Finish([q EXCEPT !.seen = row], 409, NoId, "already_processed")
  ELSE IF q.body.userId = NoString \/ q.body.userId = <<>>
  THEN Finish([q EXCEPT !.seen = row], 400, NoId, "user_id_required")
  ELSE IF q.body.orderType = "none"
  THEN Finish([q EXCEPT !.seen = row], 400, NoId, "order_type_required")
  ELSE IF SanitizeUUID(q.body.userId) = NoString
  THEN Finish([q EXCEPT !.seen = row], 400, NoId, "user_id_invalid")
  ELSE [q EXCEPT !.seen = row, !.pc = "v_update"]

VerifyOutcome(q, sig, row) ==
  IF ~VerifyPaymentSignature(RzpOrderId, q.pid, sig)
  THEN Finish(q, 400, NoId, "signature_invalid")
  ELSE IF /\ row.paymentId # NoPayment
          /\ row.paymentId # q.pid
          /\ IsSuccessful(row.status)
  THEN Finish([q EXCEPT !.seen = row], 409, NoId, "already_processed")
  ELSE IF q.body.userId = NoString \/ q.body.userId = <<>>
  THEN Finish([q EXCEPT !.seen = row], 400, NoId, "user_id_required")
  ELSE IF q.body.orderType = "none"
  THEN Finish([q EXCEPT !.seen = row], 400, NoId, "order_type_required")
  ELSE IF SanitizeUUID(q.body.userId) = NoString
  THEN Finish([q EXCEPT !.seen = row], 400, NoId, "user_id_invalid")
  ELSE IF IsSuccessful(row.status) /\ row.appOrderId # NoId
  THEN Finish([q EXCEPT !.seen = row], 200, row.appOrderId, "already_verified")
  ELSE [q EXCEPT !.seen = row, !.pc = "v_update"]

\* Lines 417-465: the catch of verifyPaymentSignatureHandler answers 500
\* "Unable to verify payment signature" for an error of the store.
VerifyThrow(q, await) ==
  Finish([q EXCEPT !.fault = await], 500, NoId, "verify_failed")

Verify_FindOne(r) ==
  \E pid \in PaymentIds, sig \in signatures, body \in payloads :
    LET q == [IdleReq EXCEPT !.kind = "verify", !.pid = pid, !.sig = sig,
                             !.body = body] IN
    /\ CanStart(r)
    /\ budget' = budget - 1
    /\ \/ Step(r, VerifyOutcome(q, sig, po))
       \/ /\ MayFail("verify")
          /\ VerifyPaymentSignature(RzpOrderId, pid, sig)
          /\ Step(r, VerifyThrow([q EXCEPT !.seen = po], "findOne"))
    /\ UNCHANGED <<po, orders, items, history, bookings, nextOrderId, deleted, env>>

\* Lines 366-376: await order.update({...}) with the metadata read at findOne.
StagingWrite_AlwaysPaid(row, q) ==
  [row EXCEPT !.paymentId = q.pid,
              !.status = "paid",
              !.orderData = OrderDataToStore(q.body),
              !.appOrderId = q.seen.appOrderId]

StagingWrite(row, q) ==
  [row EXCEPT !.paymentId = q.pid,
              !.status = IF IsSuccessful(q.seen.status) THEN q.seen.status
                         ELSE "paid",
              !.orderData = OrderDataToStore(q.body),
              !.appOrderId = q.seen.appOrderId]

Verify_Update(r) ==
  LET q == reqs[r] IN
  /\ q.pc = "v_update"
  /\ \/ /\ po' = StagingWrite(po, q)
        /\ Step(r, [q EXCEPT !.pc = "v_refetch"])
     \/ /\ MayFail("verify")
        /\ UNCHANGED po
        /\ Step(r, VerifyThrow(q, "update"))
  /\ UNCHANGED <<orders, items, history, bookings, nextOrderId, budget, deleted, env>>

\* Lines 378-416: await PaymentOrder.findOne again, then the Materializer or
\* the response.
Verify_Refetch(r) ==
  LET q == reqs[r] IN
  /\ q.pc = "v_refetch"
  /\ \/ IF /\ po.appOrderId = NoId
           /\ po.orderData # NoData
           /\ po.orderData.userId # NoString
           /\ po.orderData.orderType # "none"
        THEN Step(r, MatEnter(q, po, po.orderData, TRUE))
        ELSE Step(r, Finish(q, 200, po.appOrderId,
                            IF po.appOrderId # NoId THEN "order_created"
                            ELSE "order_via_webhook"))
     \/ \* the findOne after the update threw
        MayFail("verify") /\ Step(r, VerifyThrow(q, "refetch"))
  /\ UNCHANGED <<po, orders, items, history, bookings, nextOrderId, budget, deleted, env>>

\* --------------------------------------------------------- Webhook Handler
\* razorpayWebhookHandler dispatches on payload.event; each event handler
\* starts with await PaymentOrder.findOne({ razorpayOrderId }).
Webhook_FindOne(r, event) ==
  \E pid \in PaymentIds, sender \in senders :
    LET signature == SignatureHeader(sender, event, pid) IN
    /\ CanStart(r)
    /\ SignatureAccepted(webhookSecret, RawBody(event, pid), signature)
    /\ budget' = budget - 1
    /\ Step(r, [IdleReq EXCEPT !.kind = event, !.pid = pid, !.seen = po,
                               !.sig = signature, !.pc = "w_update"])
    /\ UNCHANGED <<po, orders, items, history, bookings, nextOrderId, deleted, env>>

\* Lines 1233-1262: a request that does not get past the signature check is
\* answered 400 before anything is read.
Webhook_Rejected(r) ==
  \E event \in Events, pid \in PaymentIds, sender \in senders :
    LET signature == SignatureHeader(sender, event, pid) IN
    /\ CanStart(r)
    /\ ~SignatureAccepted(webhookSecret, RawBody(event, pid), signature)
    /\ budget' = budget - 1
    /\ Step(r, Finish([IdleReq EXCEPT !.kind = event, !.pid = pid,
                                      !.sig = signature],
                       400, NoId, "signature_invalid"))
    /\ UNCHANGED <<po, orders, items, history, bookings, nextOrderId, deleted, env>>

\* Lines 1306-1324: the branches of the switch that call no event handler.
NoHandlerOutcome_AllProcessed(q) == Finish(q, 200, NoId, "processed")

NoHandlerOutcome(q) ==
  IF q.kind \in RefundEvents THEN Finish(q, 200, NoId, "processed")
  ELSE Finish(q, 200, NoId, "unsupported")

\* Lines 1308-1311: the refund branch of the switch writes nothing.
RefundWrite_SetsRefunded(row) == [row EXCEPT !.status = "refunded"]

RefundWrite(row) == row

\* Lines 1306-1309 and 1320-1324: a refund event is logged and answered 200.
Webhook_Refund(r) ==
  \E event \in RefundEvents, pid \in PaymentIds, sender \in senders :
    LET signature == SignatureHeader(sender, event, pid) IN
    /\ CanStart(r)
    /\ SignatureAccepted(webhookSecret, RawBody(event, pid), signature)
    /\ budget' = budget - 1
    /\ po' = RefundWrite(po)
    /\ Step(r, NoHandlerOutcome([IdleReq EXCEPT !.kind = event, !.pid = pid,
                                                !.sig = signature]))
    /\ UNCHANGED <<orders, items, history, bookings, nextOrderId, deleted, env>>

\* Lines 1311-1317: the default branch of the switch.
Webhook_Unsupported(r) ==
  \E event \in UnknownEvents, pid \in PaymentIds, sender \in senders :
    LET signature == SignatureHeader(sender, event, pid) IN
    /\ CanStart(r)
    /\ SignatureAccepted(webhookSecret, RawBody(event, pid), signature)
    /\ budget' = budget - 1
    /\ Step(r, NoHandlerOutcome([IdleReq EXCEPT !.kind = event, !.pid = pid,
                                                !.sig = signature]))
    /\ UNCHANGED <<po, orders, items, history, bookings, nextOrderId, deleted, env>>

AfterWebhookUpdate_NoMaterializer(q) == Finish(q, 200, NoId, "processed")

\* Lines 1110-1130 and 1199-1219: after the status update.
AfterWebhookUpdate(q) ==
  IF q.seen.appOrderId # NoId THEN Finish(q, 200, NoId, "processed")
  ELSE IF /\ q.seen.orderData # NoData
          /\ q.seen.orderData.userId # NoString
          /\ q.seen.orderData.orderType # "none"
  THEN [q EXCEPT !.pc = "w_refetch"]
  ELSE Finish(q, 200, NoId, "processed")

\* handlePaymentAuthorized, lines 1060-1070
AuthorizedWrite(row, q) ==
  [row EXCEPT !.paymentId = q.pid, !.status = "authorized",
              !.orderData = q.seen.orderData, !.appOrderId = q.seen.appOrderId]

HandlePaymentAuthorized_Update(r) ==
  LET q == reqs[r] IN
  /\ q.pc = "w_update" /\ q.kind = "payment.authorized"
  /\ po' = AuthorizedWrite(po, q)
  /\ Step(r, Finish(q, 200, NoId, "processed"))
  /\ UNCHANGED <<orders, items, history, bookings, nextOrderId, budget, deleted, env>>

\* handlePaymentCaptured, lines 1095-1106
CapturedWrite_Alternates(row, q) ==
  [row EXCEPT !.paymentId = q.pid,
              !.status = IF row.status = "captured" THEN "paid" ELSE "captured",
              !.orderData = q.seen.orderData, !.appOrderId = q.seen.appOrderId]

CapturedWrite(row, q) ==
  [row EXCEPT !.paymentId = q.pid, !.status = "captured",
              !.orderData = q.seen.orderData, !.appOrderId = q.seen.appOrderId]

HandlePaymentCaptured_Update(r) ==
  LET q == reqs[r] IN
  /\ q.pc = "w_update" /\ q.kind = "payment.captured"
  /\ po' = CapturedWrite(po, q)
  /\ Step(r, AfterWebhookUpdate(q))
  /\ UNCHANGED <<orders, items, history, bookings, nextOrderId, budget, deleted, env>>

\* handlePaymentFailed, lines 1151-1161
FailedWrite_SetsPointer(row, q) ==
  [row EXCEPT !.paymentId = q.pid, !.status = "failed",
              !.orderData = q.seen.orderData, !.appOrderId = 1]

FailedWrite(row, q) ==
  [row EXCEPT !.paymentId = q.pid, !.status = "failed",
              !.orderData = q.seen.orderData, !.appOrderId = q.seen.appOrderId]

HandlePaymentFailed_Update(r) ==
  LET q == reqs[r] IN
  /\ q.pc = "w_update" /\ q.kind = "payment.failed"
  /\ po' = FailedWrite(po, q)
  /\ Step(r, Finish(q, 200, NoId, "processed"))
  /\ UNCHANGED <<orders, items, history, bookings, nextOrderId, budget, deleted, env>>

\* handleOrderPaid, lines 1186-1195
OrderPaidWrite(row, q) ==
  IF q.seen.status # "captured"
  THEN [row EXCEPT !.status = "paid", !.orderData = q.seen.orderData,
                   !.appOrderId = q.seen.appOrderId]
  ELSE row

HandleOrderPaid_Update(r) ==
  LET q == reqs[r] IN
  /\ q.pc = "w_update" /\ q.kind = "order.paid"
  /\ po' = OrderPaidWrite(po, q)
  /\ Step(r, AfterWebhookUpdate(q))
  /\ UNCHANGED <<orders, items, history, bookings, nextOrderId, budget, deleted, env>>

\* Lines 1115-1121 and 1204-1210: await PaymentOrder.findOne (refreshedOrder)
\* and the call of the Materializer with the orderData read before the update.
Webhook_Refetch(r) ==
  LET q == reqs[r] IN
  /\ q.pc = "w_refetch"
  /\ Step(r, MatEnter(q, po, q.seen.orderData, FALSE))
  /\ UNCHANGED <<po, orders, items, history, bookings, nextOrderId, budget, deleted, env>>

\* --------------------------------------------------------- Capture Handler
\* Lines 1020-1042: the catch of capturePaymentHandler answers 502 (400 or
\* 409 for some gateway messages).
CaptureThrow(q, await) ==
  Finish([q EXCEPT !.fault = await], 502, NoId, "capture_failed")

\* Lines 966-993: what follows the findOne, up to the gateway call.
CaptureOutcome_NoShortCut(q, row) ==
  IF row.paymentId # q.pid THEN Finish(q, 404, NoId, "not_found")
  ELSE [q EXCEPT !.seen = row, !.pc = "c_gateway"]

CaptureOutcome(q, row) ==
  IF row.paymentId # q.pid THEN Finish(q, 404, NoId, "not_found")
  ELSE IF row.status = "captured"
  THEN Finish([q EXCEPT !.seen = row], 200, NoId, "already_captured")
  ELSE [q EXCEPT !.seen = row, !.pc = "c_gateway"]

\* Lines 961-993: await PaymentOrder.findOne({ razorpayPaymentId })
Capture_FindOne(r) ==
  \E pid \in PaymentIds :
    LET q == [IdleReq EXCEPT !.kind = "capture", !.pid = pid] IN
    /\ CanStart(r)
    /\ budget' = budget - 1
    /\ \/ Step(r, CaptureOutcome(q, po))
       \/ MayFail("capture") /\ Step(r, CaptureThrow(q, "findOne"))
    /\ UNCHANGED <<po, orders, items, history, bookings, nextOrderId, deleted, env>>

\* Line 995: await client.payments.capture(...)
Capture_Gateway(r) ==
  LET q == reqs[r] IN
  /\ q.pc = "c_gateway"
  /\ \/ Step(r, [q EXCEPT !.pc = "c_update"])
     \/ MayFail("capture") /\ Step(r, CaptureThrow(q, "gateway"))
  /\ UNCHANGED <<po, orders, items, history, bookings, nextOrderId, budget, deleted, env>>

\* Lines 1001-1019: await order.update({ status: 'captured', ... }); the
\* findOne that follows only feeds the response.
CaptureWrite_ClearsMetadata(row) ==
  [row EXCEPT !.status = "captured", !.orderData = NoData]

CaptureWrite(row) == [row EXCEPT !.status = "captured"]

Capture_Update(r) ==
  LET q == reqs[r] IN
  /\ q.pc = "c_update"
  /\ \/ /\ po' = CaptureWrite(po)
        /\ Step(r, Finish(q, 200, NoId, "captured"))
     \/ \* the update threw
        /\ MayFail("capture")
        /\ UNCHANGED po
        /\ Step(r, CaptureThrow(q, "update"))
     \/ \* the findOne after the update threw
        /\ MayFail("capture")
        /\ po' = CaptureWrite(po)
        /\ Step(r, CaptureThrow(q, "refetch"))
  /\ UNCHANGED <<orders, items, history, bookings, nextOrderId, budget, deleted, env>>

\* ------------------------------------------------------------- Order CRUD
\* deleteOrderHandler: Order.findByPk(id), then order.destroy()
DeleteOrder ==
  \E o \in orders :
    /\ deleted < MaxDeletes
    /\ deleted' = deleted + 1
    /\ orders' = orders \ {o}
    /\ UNCHANGED <<po, items, history, bookings, reqs, nextOrderId, budget, log, env>>

\* The status values an order update or a history record may carry
\* (the first two of the validator's list).
OrderStatuses == {"pending", "confirmed"}

\* updateOrderHandler: Order.findByPk(id), order.update(...), and when the
\* status changed OrderStatusHistory.create. status "none" is a body without
\* a status.
UpdateOrder ==
  \E o \in orders, status \in OrderStatuses \cup {"none"} :
    LET oldStatus == o.status
        newStatus == IF status = "none" THEN o.status ELSE status IN
    /\ \A r \in Slots : ~Active(r)
    /\ budget > 0
    /\ budget' = budget - 1
    /\ orders' = (orders \ {o}) \cup {[o EXCEPT !.status = newStatus]}
    /\ history' =
         IF oldStatus # newStatus
         THEN history \cup {[id |-> HistoryId(history), orderId |-> o.id,
                             status |-> newStatus,
                             previousStatus |-> oldStatus]}
         ELSE history
    /\ UNCHANGED <<po, items, bookings, reqs, nextOrderId, deleted, log, env>>

\* ------------------------------------------------ OrderStatusHistory CRUD
\* createOrderStatusHistoryHandler: OrderStatusHistory.create with the
\* orderId of the path and the status and previousStatus of the body.
CreateOrderStatusHistory ==
  \E o \in orders, status \in OrderStatuses,
     previousStatus \in OrderStatuses \cup {"null"} :
    /\ \A r \in Slots : ~Active(r)
    /\ budget > 0
    /\ budget' = budget - 1
    /\ history' = history \cup {[id |-> HistoryId(history), orderId |-> o.id,
                                 status |-> status,
                                 previousStatus |-> previousStatus]}
    /\ UNCHANGED <<po, orders, items, bookings, reqs, nextOrderId, deleted,
                   log, env>>

\* deleteOrderStatusHistoryHandler: OrderStatusHistory.findOne({ id, orderId })
\* then record.destroy(); 404 and no change when there is no such row.
DeleteOrderStatusHistory ==
  \E id \in 1..HistoryId(history), orderId \in 1..nextOrderId :
    LET record == {h \in history : h.id = id /\ h.orderId = orderId} IN
    /\ \A r \in Slots : ~Active(r)
    /\ budget > 0
    /\ budget' = budget - 1
    /\ history' = history \ record
    /\ UNCHANGED <<po, orders, items, bookings, reqs, nextOrderId, deleted,
                   log, env>>

\* ------------------------------------------------------- pure functions
\* A call of verifyPaymentSignature with a fresh cache (resetRazorpayClient),
\* recorded with its arguments and its result.
VerifyPaymentSignature_Call ==
  \E config \in Configurations, orderId \in {RzpOrderId}, pid \in PaymentIds,
     signature \in SignatureArguments :
    /\ budget > 0
    /\ budget' = budget - 1
    /\ log' = Append(log,
                 [kind |-> "verifyPaymentSignature", config |-> config,
                  orderId |-> orderId, pid |-> pid, sig |-> signature,
                  result |-> VerifyPaymentSignatureUnder(config, orderId, pid,
                                                         signature)])
    /\ UNCHANGED <<po, orders, items, history, bookings, reqs, nextOrderId,
                   deleted, env>>

\* A call of sanitizeUUID, recorded with its argument, its result, and the
\* result of sanitizing that result.
SanitizeUUID_Call ==
  \E value \in UuidInputs :
    /\ budget > 0
    /\ budget' = budget - 1
    /\ log' = Append(log,
                 [kind |-> "sanitizeUUID", value |-> value,
                  result |-> SanitizeUUID(value),
                  again |-> SanitizeUUID(SanitizeUUID(value))])
    /\ UNCHANGED <<po, orders, items, history, bookings, reqs, nextOrderId,
                   deleted, env>>

\* ---------------------------------------------------------- specifications
Verify(r) == Verify_FindOne(r) \/ Verify_Update(r) \/ Verify_Refetch(r)

Materialize(r) ==
  \/ Mat_DuplicateCheck(r) \/ Mat_OrderCreate(r) \/ Mat_PointerUpdate(r)
  \/ Mat_OrderItems(r) \/ Mat_StatusHistory(r) \/ Mat_Booking(r)

Webhook(r) ==
  \/ Webhook_FindOne(r, "payment.authorized")
  \/ Webhook_FindOne(r, "payment.captured")
  \/ Webhook_FindOne(r, "payment.failed")
  \/ Webhook_FindOne(r, "order.paid")
  \/ HandlePaymentAuthorized_Update(r) \/ HandlePaymentCaptured_Update(r)
  \/ HandlePaymentFailed_Update(r) \/ HandleOrderPaid_Update(r)
  \/ Webhook_Refetch(r)

Capture(r) == Capture_FindOne(r) \/ Capture_Gateway(r) \/ Capture_Update(r)

\* Requests interleave at every await.
Next ==
  \/ \E r \in Slots :
       Verify(r) \/ Materialize(r) \/ Mat_FindByPk(r) \/ Webhook(r) \/ Capture(r)
  \/ DeleteOrder

Spec == Init /\ [][Next]_vars

\* Requests run one at a time: each handler finishes before the next starts.
SeqNext ==
  \/ Verify(1) \/ Materialize(1) \/ Webhook(1) \/ Capture(1)
  \/ DeleteOrder

SeqSpec == SeqInit /\ [][SeqNext]_vars

\* Verify calls and direct calls of the Materializer, one at a time.
MatNext ==
  \/ Verify(1) \/ Materialize(1) \/ Mat_FindByPk(1) \/ Mat_Call(1)
  \/ DeleteOrder

MatSpec == MatInit /\ [][MatNext]_vars

\* Requests run one at a time, verify calls carrying any payload of AllBodies.
PayloadSpec == PayloadInit /\ [][SeqNext]_vars

\* Requests run one at a time, verify calls carrying event payloads.
EventSpec == EventInit /\ [][SeqNext]_vars

\* Requests run one at a time, and the awaits of the Materializer may throw.
FaultSpec == FaultInit /\ [][SeqNext]_vars

\* Requests run one at a time, the order update and the status-history
\* requests among them.
HistoryNext ==
  \/ SeqNext
  \/ UpdateOrder \/ CreateOrderStatusHistory \/ DeleteOrderStatusHistory

HistorySpec == HistoryInit /\ [][HistoryNext]_vars

\* Requests run one at a time; webhook requests carry any event and come
\* from any sender.
WebhookNext ==
  \/ SeqNext
  \/ Webhook_Rejected(1) \/ Webhook_Refund(1) \/ Webhook_Unsupported(1)

WebhookSpec == WebhookInit /\ [][WebhookNext]_vars

\* Requests run one at a time, and the awaits of the verify and capture
\* handlers may throw.
HandlerFaultSpec == HandlerFaultInit /\ [][SeqNext]_vars

\* Requests run one at a time; the duplicate-booking guard may get no answer.
GuardSpec == GuardInit /\ [][SeqNext]_vars

\* Requests and direct calls of the Materializer, one at a time.
RepairNext == SeqNext \/ Mat_FindByPk(1) \/ Mat_Call(1)

RepairSpec == RepairInit /\ [][RepairNext]_vars

\* Capture calls, interleaved at every await.
CaptureNext == \E r \in Slots : Capture(r)

CaptureSpec == CaptureInit /\ [][CaptureNext]_vars

SignatureSpec == SignatureInit /\ [][VerifyPaymentSignature_Call]_vars

SanitizeSpec == SanitizeInit /\ [][SanitizeUUID_Call]_vars

TypeOK ==
  /\ faults \subseteq FaultDomains
  /\ po.status \in Statuses
  /\ nextOrderId \in 1..(MaxSeqRequests + 1)

\* ================================================================== claims
Quiescent == \A r \in Slots : ~Active(r)

IsCaptureEvent(kind) == kind \in {"payment.captured", "order.paid"}

ValidPayload(body) ==
  SanitizeUUID(body.userId) # NoString /\ body.orderType # "none"

\* ---- C1
\* C1: under any interleaving of verify calls and payment.captured /
\* order.paid deliveries for one PaymentOrder, at most one Order row is ever
\* created (Order.create runs at most once).
C1_AtMostOneOrderCreated == nextOrderId <= 2

\* ---- C2
\* The requests ran one at a time, none failed, no Order was deleted, and the
\* last two were a verify answered 200 followed by a payment.captured /
\* order.paid webhook, or two such webhooks with pending data staged.
C2_Scenario ==
  /\ Quiescent
  /\ deleted = 0
  /\ Len(log) >= 2
  /\ IsCaptureEvent(Last.kind)
  /\ \/ log[Len(log) - 1].kind = "verify" /\ log[Len(log) - 1].code = 200
     \/ IsCaptureEvent(log[Len(log) - 1].kind) /\ po.orderData # NoData

\* C2 as stated: after verify-then-webhook or webhook-then-webhook, run one at
\* a time without failures, exactly one Order row exists.
C2_ExactlyOneOrder == C2_Scenario => Cardinality(orders) = 1

\* C2 as amended: exactly one Order row exists, the one the pointer names,
\* unless the Materializer declined on the duplicate-booking guard (the staged
\* order is an event whose date and slot the user has already booked); then
\* the pointer is unset and no Order row exists.
C2_OneOrderUnlessDeclined ==
  C2_Scenario =>
    IF po.appOrderId # NoId
    THEN orders # {} /\ \A o \in orders : o.id = po.appOrderId
    ELSE /\ orders = {}
         /\ po.orderData.orderType = "event"
         /\ \E b \in bookings : IsDuplicateBooking(b, po.orderData.booking)

C2_Witness ==
  /\ C2_Scenario
  /\ Len(log) = 3
  /\ log[1].kind = "verify" /\ log[1].msg = "order_created"
  /\ IsCaptureEvent(log[2].kind)
  /\ Cardinality(orders) = 1

\* ---- C3
\* C3: once metadata.appOrderId holds an order id, no step of any request
\* removes it or replaces it with another id.
C3_PointerSetAtMostOnce ==
  [][po.appOrderId # NoId => po'.appOrderId = po.appOrderId]_vars

InChain(status) == status \in {"created", "authorized", "paid", "captured"}

Rank(status) ==
  CASE status = "created" -> 0 [] status = "authorized" -> 1
    [] status = "paid" -> 2 [] status = "captured" -> 3 [] OTHER -> 4

\* C5: for requests run to completion one after the other, the status of the
\* PaymentOrder never moves to an earlier stage of the chain
\* created < authorized < paid < captured.
C5_StatusNeverRegresses ==
  [][(InChain(po.status) /\ InChain(po'.status)) =>
       Rank(po'.status) >= Rank(po.status)]_vars

\* ---- C6
\* C6: once the status is paid or captured, no request sets it to failed.
C6_NeverFailedAfterSuccess ==
  [][IsSuccessful(po.status) => po'.status # "failed"]_vars

\* ---- C7
\* A response to a verify call with a valid signature that found a stored
\* payment id different from its own.
C7_Case(resp) ==
  /\ resp.kind = "verify"
  /\ resp.msg # "signature_invalid"
  /\ resp.seen.paymentId \notin {NoPayment, resp.pid}

C8_RetryInvokesMaterializer ==
  (/\ Quiescent
   /\ C7_Case(Last)
   /\ Last.seen.status = "failed"
   /\ ValidPayload(Last.body)) =>
     /\ po.status = "paid"
     /\ po.paymentId = Last.pid
     /\ Last.mat

\* ---- C9
\* A response to a verify call with a valid signature and a non-conflicting
\* payment id that found the status paid or captured and the pointer set.
C9_Case(resp) ==
  /\ resp.kind = "verify"
  /\ resp.msg # "signature_invalid"
  /\ IsSuccessful(resp.seen.status)
  /\ resp.seen.appOrderId # NoId
  /\ resp.seen.paymentId \in {NoPayment, resp.pid}

\* C9 as stated: such a call is answered with success carrying the existing
\* order id and writes nothing, whatever payload it carries.
C9_ShortCircuitAnyPayload ==
  [][(Len(log') > Len(log) /\ C9_Case(Last')) =>
       /\ UNCHANGED store
       /\ Last'.code = 200
       /\ Last'.out = Last'.seen.appOrderId]_vars

\* C9 as amended: such a call writes nothing and is answered at its first
\* read; with a payload that has an orderType and a userId that sanitizes it
\* is answered with success carrying the existing order id, whatever else the
\* payload holds; with any other payload it is answered 400.
C9_ShortCircuitValidPayload ==
  [][(Len(log') > Len(log) /\ C9_Case(Last')) =>
       /\ UNCHANGED store
       /\ budget' < budget
       /\ Last'.seen = po
       /\ IF ValidPayload(Last'.body)
          THEN /\ Last'.code = 200
               /\ Last'.out = po.appOrderId
               /\ Last'.msg = "already_verified"
          ELSE Last'.code = 400]_vars

C9_Witness ==
  \E i \in 1..Len(log) :
    /\ C9_Case(log[i])
    /\ log[i].msg = "already_verified"
    /\ log[i].body.tag # po.orderData.tag

\* ---- C10
\* C10: a verify call that reaches its staging write when metadata already
\* holds a staged snapshot leaves the snapshot unchanged.
C10_StagedSnapshotKept ==
  [][\A r \in Slots :
       (/\ reqs[r].pc = "v_update"
        /\ reqs'[r].pc = "v_refetch"
        /\ po.orderData # NoData) =>
         po'.orderData = po.orderData]_vars

\* ---- C11
\* The signature of a verify response matches HMAC(secret, orderId|paymentId).
SignatureMatches(resp) ==
  resp.sig = Hmac(KeySecret, <<RzpOrderId, "|", resp.pid>>)

\* C11: a verify call whose signature does not match
\* HMAC(secret, orderId|paymentId) is answered with 400 at once and changes
\* nothing: the PaymentOrder row and the Order, OrderItem and
\* OrderStatusHistory tables are unchanged, and no request with such a
\* signature is ever past the signature check.
C11_InvalidSignatureRejected ==
  [][/\ (Len(log') > Len(log) /\ Last'.kind = "verify"
           /\ ~SignatureMatches(Last')) =>
          /\ Last'.code = 400
          /\ budget' < budget
          /\ UNCHANGED <<store, bookings, nextOrderId>>
     /\ \A r \in Slots :
          reqs'[r].kind = "verify" => SignatureMatches(reqs'[r])]_vars

C11_Witness ==
  /\ Len(log) = 2
  /\ log[1].kind = "verify" /\ log[1].msg = "order_created"
  /\ log[2].kind = "verify" /\ log[2].code = 400
  /\ ~SignatureMatches(log[2])
  /\ ValidPayload(log[2].body)

\* ---- C12
\* A response to a verify call with a valid signature whose userId is missing
\* or fails sanitization, or whose orderType is missing.
C12_Case(resp) ==
  /\ resp.kind = "verify"
  /\ SignatureMatches(resp)
  /\ ~ValidPayload(resp.body)

\* The optional references: a verify call with a valid signature and a valid
\* userId and orderType is not answered 400, and its staging write stages
\* null for a templeId or addressId that fails sanitization.
C12_OptionalReferences ==
  /\ (Len(log') > Len(log) /\ Last'.kind = "verify" /\ SignatureMatches(Last')
        /\ ValidPayload(Last'.body)) => Last'.code # 400
  /\ \A r \in Slots :
       (reqs[r].pc = "v_update" /\ reqs'[r].pc = "v_refetch") =>
         /\ ~IsValidUUID(Trim(reqs[r].body.templeId)) =>
              po'.orderData.templeId = NoString
         /\ ~IsValidUUID(Trim(reqs[r].body.addressId)) =>
              po'.orderData.addressId = NoString
         /\ po'.orderData.userId # NoString

\* C12 as stated: such a call is answered 400 and mutates nothing; an invalid
\* templeId or addressId does not reject the call and is staged as null.
C12_InvalidPayloadRejected ==
  [][/\ (Len(log') > Len(log) /\ C12_Case(Last')) =>
          (Last'.code = 400 /\ UNCHANGED <<store, bookings, nextOrderId>>)
     /\ C12_OptionalReferences]_vars

\* C12 as amended: such a call mutates nothing and is answered 400, unless the
\* stored payment id differs from the call's and the stored status is paid or
\* captured: the conflict check comes first and the call is answered 409.  An
\* invalid templeId or addressId does not reject the call and is staged as
\* null.
C12_InvalidPayloadRejectedOrConflict ==
  [][/\ (Len(log') > Len(log) /\ C12_Case(Last')) =>
          /\ UNCHANGED <<store, bookings, nextOrderId>>
          /\ budget' < budget
          /\ Last'.code =
               IF /\ po.paymentId \notin {NoPayment, Last'.pid}
                  /\ IsSuccessful(po.status)
               THEN 409 ELSE 400
     /\ C12_OptionalReferences]_vars

C12_Witness ==
  /\ Len(log) = 2
  /\ log[1].kind = "verify" /\ log[1].body = BodyBadRefs /\ log[1].code = 200
  /\ po.orderData.templeId = NoString
  /\ po.orderData.addressId # NoString
  /\ C12_Case(log[2]) /\ log[2].code = 400

\* ---- C13
\* A response to a verify call with a valid signature, a valid userId, a
\* non-event orderType and line items that all carry an itemType, which found
\* the PaymentOrder in status created.
C13_Case(resp) ==
  /\ resp.kind = "verify"
  /\ SignatureMatches(resp)
  /\ ValidPayload(resp.body)
  /\ resp.body.orderType # "event"
  /\ \A k \in 1..Len(resp.body.items) : resp.body.items[k]
  /\ resp.seen.status = "created"

\* C13: with no failure and no Order deleted, such a call responds 200 with an
\* order id, and at the response the PaymentOrder is paid and its pointer
\* names that order, exactly one Order exists for the PaymentOrder and has
\* paymentStatus paid, exactly n OrderItem rows reference it (n the number of
\* line items) and exactly one OrderStatusHistory row does, with
\* previousStatus null.
C13_VerifyCreatesOrder ==
  [][(Len(log') > Len(log) /\ C13_Case(Last') /\ deleted' = 0) =>
       /\ Last'.code = 200
       /\ Last'.out # NoId
       /\ po'.status = "paid"
       /\ po'.appOrderId = Last'.out
       /\ Cardinality({o \in orders' : o.paymentId = RzpOrderId}) = 1
       /\ \A o \in orders' :
            o.paymentId = RzpOrderId =>
              o.id = Last'.out /\ o.paymentStatus = "paid"
       /\ Cardinality({i \in items' : i.orderId = Last'.out}) =
            Len(Last'.body.items)
       /\ Cardinality({h \in history' : h.orderId = Last'.out}) = 1
       /\ \A h \in history' :
            h.orderId = Last'.out => h.previousStatus = "null"]_vars

C13_Witness ==
  /\ Len(log) = 2
  /\ log[1].kind = "verify" /\ log[1].code = 400
  /\ C13_Case(log[2]) /\ log[2].body = BodyBadRefs
  /\ Cardinality(items) = 2
  /\ Cardinality(history) = 1
  /\ deleted = 0

\* ---- C14
\* No verify call has been answered before response n.
NoVerifyBefore(n) == \A i \in 1..(n - 1) : log[i].kind # "verify"

\* The webhook-only path: nothing is in flight, no Order was deleted, the
\* last response but one is that of a payment.captured delivery which found no
\* staged pending data, no verify call was answered before it, and the last
\* response is that of a verify call with a valid signature and a full
\* payload.
C14_Scenario ==
  /\ Quiescent
  /\ deleted = 0
  /\ Len(log) >= 2
  /\ log[Len(log) - 1].kind = "payment.captured"
  /\ log[Len(log) - 1].seen.orderData = NoData
  /\ NoVerifyBefore(Len(log) - 1)
  /\ Last.kind = "verify"
  /\ SignatureMatches(Last)
  /\ ValidPayload(Last.body)

\* After a payment.captured delivery with no verify call before it, the status
\* is captured and no Order exists.
C14_CapturedWithoutOrder ==
  (/\ Quiescent
   /\ Last.kind = "payment.captured"
   /\ NoVerifyBefore(Len(log))) =>
     po.status = "captured" /\ orders = {} /\ nextOrderId = 1

\* C14 as stated: the payment.captured delivery sets the status to captured
\* and creates no Order; the verify call that follows creates exactly one
\* Order and leaves the status captured.
C14_WebhookThenVerify ==
  /\ C14_CapturedWithoutOrder
  /\ C14_Scenario =>
       po.status = "captured" /\ Cardinality(orders) = 1 /\ nextOrderId = 2

\* C14 as amended: the payment.captured delivery sets the status to captured
\* and creates no Order.  The verify call that follows leaves the status
\* captured; if it carries another payment id than the delivery it is answered
\* 409 and creates nothing; if it carries the same payment id it creates
\* exactly one Order, named by the pointer and by the response, unless the
\* payload is an event whose date and slot the user has already booked, in
\* which case no Order is created and the response carries no order id.
C14_WebhookThenVerifySamePayment ==
  /\ C14_CapturedWithoutOrder
  /\ C14_Scenario =>
       /\ po.status = "captured"
       /\ IF Last.pid # log[Len(log) - 1].pid
          THEN Last.code = 409 /\ orders = {} /\ nextOrderId = 1
          ELSE IF Last.out # NoId
          THEN /\ Last.code = 200
               /\ nextOrderId = 2
               /\ Cardinality(orders) = 1
               /\ \A o \in orders : o.id = Last.out /\ o.id = po.appOrderId
          ELSE /\ Last.code = 200
               /\ orders = {} /\ nextOrderId = 1
               /\ po.orderData.orderType = "event"
               /\ \E b \in bookings :
                    IsDuplicateBooking(b, po.orderData.booking)

C14_Witness ==
  /\ C14_Scenario
  /\ Last.pid = log[Len(log) - 1].pid
  /\ Last.msg = "order_created"
  /\ po.status = "captured"
  /\ Cardinality(orders) = 1

\* ---- C15
\* C15: when the client never calls verify for the PaymentOrder, the delivery
\* of payment.captured or order.paid creates the Order: once such a delivery
\* has been handled, with no verify call answered before it, an Order exists.
C15_WebhookCreatesOrder ==
  (/\ Quiescent
   /\ IsCaptureEvent(Last.kind)
   /\ NoVerifyBefore(Len(log))) => orders # {}

\* ---- C16
\* The date and the slot an event payload asks for.
RequestedDate(wanted) == DateOnly(wanted[1])

RequestedSlots(wanted) ==
  IF ~IsJson(wanted[2]) THEN {wanted[2]}
  ELSE {e[2] : e \in {x \in JsonParse(wanted[2]) : x[1] = DateOnly(wanted[1])}}

\* The user holds booking b for date day and slot slot, whatever shape b is
\* stored in.
Booked(b, day, slot) ==
  \/ b.shape = "single" /\ DateOnly(b.dates[1]) = day /\ b.slots[1] = slot
  \/ b.shape = "arrays"
       /\ \E i \in 1..Len(b.dates) : DateOnly(b.dates[i]) = day /\ b.slots[i] = slot
  \/ b.shape = "map" /\ <<day, slot>> \in b.bydate

\* C16: for an event order with preferred date D and time slot T, whenever
\* the user already has a booking for (D, T) in any of the three stored
\* shapes, the Materializer creates no Order (and so no item, history row or
\* booking): no Order.create runs for such an order.
C16_NoOrderForBookedSlot ==
  [][\A r \in Slots :
       (/\ reqs[r].pc = "m_create"
        /\ reqs[r].odata.orderType = "event"
        /\ reqs[r].odata.booking # <<>>
        /\ \E b \in bookings, slot \in RequestedSlots(reqs[r].odata.booking) :
             Booked(b, RequestedDate(reqs[r].odata.booking), slot)) =>
         orders' = orders]_vars

\* ---- C17
\* C17: when the Materializer called by a verify call returns no Order, the
\* response is a 200 that carries no order id and says the order will be
\* created via the webhook, and at the response the PaymentOrder is paid,
\* keeps a staged snapshot and has no pointer.
C17_NoOrderResponse ==
  [][(/\ Len(log') > Len(log)
      /\ Last'.kind = "verify"
      /\ Last'.mat
      /\ Last'.ret = NoId) =>
       /\ Last'.code = 200
       /\ Last'.out = NoId
       /\ Last'.msg = "order_via_webhook"
       /\ po'.status = "paid"
       /\ po'.orderData # NoData
       /\ po'.appOrderId = NoId]_vars

\* ---- C18
\* The awaits of steps 6 to 8: the OrderItem read and creates, the
\* OrderStatusHistory read and create, the booking POST.
Steps6To8 ==
  {"items_read", "items_write", "history_read", "history_write", "booking"}

\* C18: when a call of the Materializer that committed an Order ends after a
\* failure in steps 6 to 8, the Order is still there, the pointer still names
\* it, and the Materializer returns it.
C18_LateFailureKeepsOrder ==
  [][(/\ Len(log') > Len(log)
      /\ Last'.mat
      /\ Last'.created # NoId
      /\ Last'.fault \in Steps6To8
      /\ deleted' = 0) =>
       /\ \E o \in orders' : o.id = Last'.created
       /\ po'.appOrderId = Last'.created
       /\ Last'.ret = Last'.created]_vars

\* ---- C19
\* C19: in every reachable state, every Order created by the Materializer
\* has an OrderStatusHistory row with previousStatus null.
C19_OrderHasInitialHistory ==
  \A o \in orders :
    \E h \in history : h.orderId = o.id /\ h.previousStatus = "null"

\* ---- C20
\* C20: no step of the service deletes or modifies an OrderStatusHistory row:
\* every row of the table is still there, unchanged, after the step.
C20_HistoryAppendOnly == [][history \subseteq history']_vars

\* ---- C21
\* The header of a webhook request or response is the HMAC of its body under
\* the configured secret.
Authentic(q) ==
  q.sig # NoSignature /\ q.sig = Hmac(webhookSecret, RawBody(q.kind, q.pid))

\* C21: with a webhook secret configured, a webhook request whose signature
\* header is missing or is not the HMAC of its body is answered 400 in one
\* step that changes no table, and no such request is ever in flight.
C21_BadWebhookSignatureRejected ==
  [][webhookSecret # NoSecret =>
       /\ (Len(log') > Len(log) /\ Last'.kind \in Events /\ ~Authentic(Last')) =>
            /\ Last'.code = 400
            /\ UNCHANGED <<po, orders, items, history, bookings>>
       /\ \A r \in Slots :
            (Active(r)' /\ reqs'[r].kind \in Events) => Authentic(reqs'[r])]_vars

C21_Witness ==
  /\ webhookSecret # NoSecret
  /\ Len(log) = 2
  /\ log[1].kind = "payment.captured" /\ log[1].code = 200
  /\ log[2].kind = "payment.failed" /\ log[2].code = 400
  /\ log[2].sig = SignatureHeader("replayed", "payment.failed", log[2].pid)
  /\ po.status = "captured"

\* ---- C22
\* What the handler of an event writes to the PaymentOrder.
EventWrite(row, q) ==
  IF q.kind = "payment.authorized" THEN AuthorizedWrite(row, q)
  ELSE IF q.kind = "payment.captured" THEN CapturedWrite(row, q)
  ELSE IF q.kind = "payment.failed" THEN FailedWrite(row, q)
  ELSE OrderPaidWrite(row, q)

C23_UnsupportedEvent ==
  [][(/\ Len(log') > Len(log)
      /\ Last'.kind \in Events \ (HandledEvents \cup RefundEvents)
      /\ SignatureAccepted(webhookSecret, RawBody(Last'.kind, Last'.pid),
                           Last'.sig)) =>
       /\ Last'.code = 200
       /\ Last'.msg = "unsupported"
       /\ UNCHANGED <<po, orders>>]_vars

C23_Witness ==
  /\ Len(log) = 2
  /\ log[1].kind = "verify" /\ log[1].out # NoId
  /\ log[2].kind \in UnknownEvents /\ log[2].msg = "unsupported"
  /\ orders # {}

\* ---- C24
\* The kind of the request that takes the step, "none" for a step of no
\* request.
StepKind ==
  IF Len(log') > Len(log) THEN Last'.kind
  ELSE IF \E r \in Slots : reqs'[r] # reqs[r]
  THEN (CHOOSE q \in {reqs'[r] : r \in {x \in Slots : reqs'[x] # reqs[x]}} : TRUE).kind
  ELSE "none"

\* C24: with requests run one at a time, no step of a payment.failed,
\* payment.authorized or refund request changes the Orders, OrderItems or
\* OrderStatusHistory tables or the pointer, and none calls the
\* Materializer, whatever data is staged; a refund request changes nothing at
\* all.
C24_NoMaterialization ==
  [][/\ StepKind \in {"payment.failed", "payment.authorized"} \cup RefundEvents =>
          /\ UNCHANGED <<orders, items, history, bookings>>
          /\ po'.appOrderId = po.appOrderId
          /\ \A r \in Slots : ~reqs'[r].mat
          /\ Len(log') > Len(log) => ~Last'.mat /\ Last'.created = NoId
     /\ StepKind \in RefundEvents => UNCHANGED po]_vars

C24_Witness ==
  /\ Len(log) = 2
  /\ log[1].kind = "verify" /\ log[1].code = 200 /\ log[1].out = NoId
  /\ log[2].kind = "payment.failed" /\ log[2].code = 200
  /\ po.status = "failed"
  /\ po.orderData # NoData
  /\ po.appOrderId = NoId

\* ---- C25
\* C25: a capture call that finds the PaymentOrder of its payment id already
\* captured is answered 200 "already captured" in the step of that read: it
\* never reaches the gateway call and writes nothing. So a capture call that
\* follows a successful one leaves the state of the first.
C25_CaptureIdempotent ==
  [][(/\ Len(log') > Len(log)
      /\ Last'.kind = "capture"
      /\ \/ Last'.seen.status = "captured"
         \/ /\ Last.kind = "capture" /\ Last.msg = "captured"
            /\ Last.pid = Last'.pid) =>
       /\ Last'.code = 200
       /\ Last'.msg = "already_captured"
       /\ \A r \in Slots : ~Active(r)
       /\ UNCHANGED <<po, orders, items, history, bookings, reqs>>]_vars

C25_Witness ==
  /\ Len(log) = 3
  /\ log[1].kind = "verify" /\ log[1].out # NoId
  /\ log[2].kind = "capture" /\ log[2].msg = "captured"
  /\ log[3].kind = "capture" /\ log[3].msg = "already_captured"
  /\ po.status = "captured"

\* ---- C26
\* C26: no step of a capture call, whether the call succeeds or fails,
\* changes the pointer, the staged snapshot or the Orders, OrderItems or
\* OrderStatusHistory tables, and none calls the Materializer.
C26_CaptureCreatesNothing ==
  [][StepKind = "capture" =>
       /\ UNCHANGED <<orders, items, history, bookings>>
       /\ po'.appOrderId = po.appOrderId
       /\ po'.orderData = po.orderData
       /\ \A r \in Slots : ~reqs'[r].mat
       /\ Len(log') > Len(log) => ~Last'.mat]_vars

\* A successful capture with pending data staged and the pointer unset.
C26_Witness ==
  /\ Len(log) = 2
  /\ log[1].kind = "verify" /\ log[1].code = 200 /\ log[1].out = NoId
  /\ log[1].fault = "none"
  /\ log[2].kind = "capture" /\ log[2].msg = "captured"
  /\ po.status = "captured"
  /\ po.orderData # NoData
  /\ po.appOrderId = NoId

\* A failed capture with pending data staged and the pointer unset.
C26_WitnessFailed ==
  /\ Len(log) = 2
  /\ log[1].kind = "verify" /\ log[1].code = 200 /\ log[1].out = NoId
  /\ log[2].kind = "capture" /\ log[2].code = 502
  /\ po.orderData # NoData
  /\ po.appOrderId = NoId

\* ---- C28
\* C28: a verify call answered with a 5xx status has left the PaymentOrder
\* as it found it.
C28_ServerErrorChangedNothing ==
  [][(/\ Len(log') > Len(log)
      /\ Last'.kind = "verify"
      /\ Last'.code >= 500) =>
       po' = Last'.seen]_vars

\* ---- C27
\* The request that takes the step: the one in flight before the step, else
\* the one in flight after it, else the one answered by it.
StepRequest ==
  IF \E r \in Slots : Active(r) /\ reqs'[r] # reqs[r]
  THEN reqs[CHOOSE r \in Slots : Active(r) /\ reqs'[r] # reqs[r]]
  ELSE IF \E r \in Slots : reqs'[r] # reqs[r]
  THEN reqs'[CHOOSE r \in Slots : reqs'[r] # reqs[r]]
  ELSE IF Len(log') > Len(log) THEN Last'
  ELSE IdleReq

\* C27: with requests run one at a time and no failure, when a webhook
\* event is delivered again right after a delivery of the same event that was
\* answered 200, no step of the second delivery changes the PaymentOrder
\* (status, payment id, snapshot, pointer), the Orders, OrderItems or
\* OrderStatusHistory tables, or the bookings.
C27_RedeliveryChangesNothing ==
  [][(/\ StepRequest.kind \in HandledEvents
      /\ Last.kind = StepRequest.kind
      /\ Last.pid = StepRequest.pid
      /\ Last.code = 200) =>
       UNCHANGED <<po, orders, items, history, bookings>>]_vars

\* A payment.captured delivered twice after a verify call whose Materializer
\* declined: both deliveries call the Materializer.
C27_Witness ==
  /\ Len(log) = 3
  /\ log[1].kind = "verify" /\ log[1].code = 200 /\ log[1].out = NoId
  /\ log[2].kind = "payment.captured" /\ log[2].mat
  /\ log[3].kind = "payment.captured" /\ log[3].mat
  /\ log[3].pid = log[2].pid
  /\ po.status = "captured"

\* ---- C29
\* The key secret is configured: in the environment or in the keys file.
KeySecretConfigured(config) ==
  \/ config.keySecret \notin {Unset, Empty}
  \/ config.keySecret = Unset /\ config.file = "both"

\* The key id is configured likewise, and the keys file, if any, parses.
CredentialsResolve(config) ==
  /\ KeySecretConfigured(config)
  /\ config.file # "malformed"
  /\ \/ config.keyId \notin {Unset, Empty}
     \/ config.keyId = Unset /\ config.file \in {"both", "keyId_only"}

\* C29: verifyPaymentSignature throws only when the key secret is not
\* configured; otherwise it returns true for the HMAC-SHA256 of
\* orderId|paymentId under the secret and false for every other signature.
C29_ThrowsOnlyWithoutSecret ==
  \A i \in 1..Len(log) :
    log[i].kind = "verifyPaymentSignature" =>
      IF ~KeySecretConfigured(log[i].config) THEN log[i].result = "throw"
      ELSE log[i].result =
             IF log[i].sig = Hmac(KeySecret, <<log[i].orderId, "|", log[i].pid>>)
             THEN "true" ELSE "false"

\* C29 (amended): verifyPaymentSignature throws exactly when the Razorpay
\* credentials do not resolve (key secret or key id configured nowhere, or
\* a keys file that does not parse); otherwise it returns true for the
\* HMAC-SHA256 of orderId|paymentId under the secret and false for every
\* other signature.
C29_SignatureVerdict ==
  \A i \in 1..Len(log) :
    log[i].kind = "verifyPaymentSignature" =>
      IF ~CredentialsResolve(log[i].config) THEN log[i].result = "throw"
      ELSE log[i].result =
             IF log[i].sig = Hmac(KeySecret, <<log[i].orderId, "|", log[i].pid>>)
             THEN "true" ELSE "false"

\* A call that throws although the key secret is configured.
C29_Witness ==
  /\ Len(log) = 1
  /\ log[1].kind = "verifyPaymentSignature"
  /\ KeySecretConfigured(log[1].config)
  /\ log[1].config.keyId = Unset /\ log[1].config.file = "absent"
  /\ log[1].sig = Hmac(KeySecret, <<log[1].orderId, "|", log[1].pid>>)
  /\ log[1].result = "throw"

\* ---- C30
\* C30: sanitizeUUID returns the lower-cased input for an input of the shape
\* 8-4-4-4-12 hex digits with version digit 4 and variant digit 8, 9, a or
\* b, null for every other input, and its non-null result sanitizes to
\* itself.
C30_CanonicalOrNull ==
  \A i \in 1..Len(log) :
    log[i].kind = "sanitizeUUID" =>
      /\ log[i].result = IF IsValidUUID(log[i].value)
                         THEN ToLowerCase(log[i].value) ELSE NoString
      /\ log[i].result # NoString => log[i].again = log[i].result

\* C30 (amended): sanitizeUUID returns the input with the blanks around it
\* removed and lower-cased when what is left has the version-4 shape, null
\* for every other input, and its non-null result sanitizes to itself.
C30_TrimmedCanonicalOrNull ==
  \A i \in 1..Len(log) :
    log[i].kind = "sanitizeUUID" =>
      /\ log[i].result =
           IF log[i].value # NoString /\ IsValidUUID(Trim(log[i].value))
           THEN ToLowerCase(Trim(log[i].value)) ELSE NoString
      /\ log[i].result # NoString =>
           /\ log[i].again = log[i].result
           /\ IsValidUUID(log[i].result)
           /\ log[i].result = ToLowerCase(log[i].result)

\* An identifier in upper case with blanks around it, then a numeric string.
C30_Witness ==
  /\ Len(log) = 2
  /\ log[1].kind = "sanitizeUUID" /\ log[1].value = AddressUuidRaw
  /\ log[1].result = ToLowerCase(UpperUuid)
  /\ log[2].value = <<"1">> /\ log[2].result = NoString

\* ---- C31
\* The steps of the Materializer that follow the pointer write.
AfterPointer == {"m_items", "m_history", "m_booking"}

C32_CapturedNeverPaid ==
  [][~(po.status = "captured" /\ po'.status = "paid")]_vars

\* ---- C33
\* A step that completes a payment.captured or order.paid delivery in which
\* nothing failed, handled right after a verify call that was answered 200
\* with its Order insert failed; no Order was deleted.
C33_Scenario ==
  /\ Len(log) >= 1
  /\ Len(log') > Len(log)
  /\ Last.kind = "verify" /\ Last.code = 200
  /\ Last.mat /\ Last.fault = "create"
  /\ IsCaptureEvent(Last'.kind)
  /\ Last'.fault = "none"
  /\ deleted' = 0

\* The Order of such a delivery is there and the pointer names it.
C33_Completed ==
  /\ Last'.mat
  /\ Last'.created # NoId
  /\ po'.appOrderId = Last'.created
  /\ \E o \in orders' : o.id = Last'.created
  /\ Cardinality({o \in orders' : o.id >= Last'.created}) = 1

\* A webhook handler that calls the Materializer passes no access token.
C33_NoToken ==
  \A r \in Slots :
    (reqs[r].pc = "w_refetch" /\ reqs'[r].pc \notin {"w_refetch", "idle"}) =>
      reqs'[r].mat /\ ~reqs'[r].token

\* C33 as stated: after a verify call that staged the pending data but
\* created no Order because the Order insert failed, the next
\* payment.captured or order.paid delivery that runs without failure creates
\* exactly one Order and sets the pointer, and the Materializer is called
\* without an access token.
C33_WebhookCompletes ==
  [][(C33_Scenario => C33_Completed) /\ C33_NoToken]_vars

\* The duplicate-booking guard declines the staged order of the delivery.
C33_Declined ==
  /\ Last'.seen.orderData.orderType = "event"
  /\ Last'.seen.orderData.booking # <<>>
  /\ \E b \in bookings :
       IsDuplicateBooking(b, Last'.seen.orderData.booking)

\* C33 (amended): such a delivery creates exactly one Order and sets the
\* pointer unless the staged order is an event whose date and slot the user
\* has already booked; then it creates no Order and leaves the pointer
\* unset. The Materializer is called without an access token.
C33_WebhookCompletesUnlessDeclined ==
  [][(C33_Scenario =>
        IF C33_Declined
        THEN Last'.mat /\ Last'.created = NoId /\ po'.appOrderId = NoId
        ELSE C33_Completed)
     /\ C33_NoToken]_vars

C33_Witness ==
  /\ Len(log) = 2
  /\ log[1].kind = "verify" /\ log[1].fault = "create" /\ log[1].code = 200
  /\ IsCaptureEvent(log[2].kind) /\ log[2].fault = "none"
  /\ log[2].created = 1
  /\ po.appOrderId = 1
  /\ Cardinality(orders) = 1

\* ---- C34
\* C34: with requests run one at a time and any store write of the
\* Materializer allowed to fail, at most one Order row exists for the
\* PaymentOrder in every state.
C34_AtMostOneOrder == Cardinality(orders) <= 1

\* ---- C35
\* C35: under any interleaving of the requests, no step removes the staged
\* snapshot from the metadata of a PaymentOrder whose pointer is unset.
C35_StagedDataStays ==
  [][(po.orderData # NoData /\ po.appOrderId = NoId) =>
       po'.orderData # NoData]_vars

\* ---- C36
\* A step that completes a call of the Materializer for an event order with
\* booking data whose duplicate-booking guard got no answer: the
\* booking-availability call threw (an error or a timeout) or returned an
\* unsuccessful body, or no collaborator URL is configured. Nothing else
\* failed and no Order was deleted.
C36_Scenario ==
  /\ Len(log') > Len(log)
  /\ Last'.mat
  /\ po'.orderData.orderType = "event" /\ po'.orderData.booking # <<>>
  /\ Last'.fault \in {"dupcheck", "dupcheck_body"} \/ ~appcontrolUrl
  /\ deleted' = 0

C36_OrderCreated ==
  /\ Last'.created # NoId
  /\ \E o \in orders' : o.id = Last'.created

C36_BookingPosted ==
  \E b \in bookings' : b.orderId = Last'.created

\* C36 as stated: such a call creates the Order and posts the booking,
\* whether or not the user already holds the date and slot.
C36_GuardFailsOpen ==
  [][C36_Scenario => C36_OrderCreated /\ C36_BookingPosted]_vars

\* C36 (amended): such a call creates the Order, whether or not the user
\* already holds the date and slot; it posts the booking when the
\* collaborator URL is configured and posts nothing when it is not.
C36_GuardFailsOpenBookingIfUrl ==
  [][C36_Scenario =>
       /\ C36_OrderCreated
       /\ C36_BookingPosted <=> appcontrolUrl]_vars

\* The user already holds the date and slot; the guard got no answer in one
\* call and no collaborator URL was there in another, and the Order exists.
C36_Witness ==
  /\ Quiescent
  /\ Last.mat /\ Last.created = 1
  /\ po.orderData.booking # <<>>
  /\ \E b \in bookings :
       b.orderId = 0 /\ IsDuplicateBooking(b, po.orderData.booking)
  /\ Cardinality(orders) = 1
  /\ Last.fault \in {"dupcheck", "dupcheck_body"}
  /\ \E b \in bookings : b.orderId = 1

\* ---- C37
\* C37: a verify call, a webhook delivery or a call of the Materializer that
\* finds the pointer set creates no OrderItem and no OrderStatusHistory row
\* for the Order the pointer names, whether or not rows of that Order are
\* missing.
C37_NoRepair ==
  [][\A r \in Slots :
       (Active(r) /\ reqs[r].seen.appOrderId # NoId) =>
         /\ \A i \in items' \ items : i.orderId # reqs[r].seen.appOrderId
         /\ \A h \in history' \ history :
              h.orderId # reqs[r].seen.appOrderId]_vars

\* The history row of Order 1 could not be written; a later request found
\* the pointer set and Order 1 is still without it.
C37_Witness ==
  /\ Len(log) = 2
  /\ log[1].created = 1 /\ log[1].fault = "history_write"
  /\ log[2].seen.appOrderId = 1
  /\ \E o \in orders : o.id = 1
  /\ ~ \E h \in history : h.orderId = 1

\* ---- C38
\* The capture calls for payment p that have invoked the gateway capture
\* operation: those past the gateway call, in flight or completed (answered
\* with the captured payment, or failed at the gateway call or after it).
C38_GatewayCaptures(p) ==
  Cardinality({r \in Slots : /\ reqs[r].kind = "capture"
                             /\ reqs[r].pid = p
                             /\ reqs[r].pc = "c_update"})
  + Cardinality({i \in 1..Len(log) : /\ log[i].kind = "capture"
                                     /\ log[i].pid = p
                                     /\ \/ log[i].msg = "captured"
                                        \/ log[i].fault \in
                                             {"gateway", "update", "refetch"}})

\* C38: under any interleaving of the requests, the gateway capture
\* operation is invoked at most once for each payment id.
C38_GatewayCaptureOnce == \A p \in PaymentIds : C38_GatewayCaptures(p) <= 1

\* ---- C39
\* The line items staged for an Order: those of the payload it was built from.
C39_StagedItems(o) == (CHOOSE b \in AllBodies : b.tag = o.snapshot).items

\* C39: once the request that created an Order has ended (nothing having
\* failed), the Order has no OrderItem row when one of its staged line items
\* lacks an itemType, and one row per staged line item otherwise.
C39_ItemsAllOrNothing ==
  Quiescent =>
    \A o \in orders :
      LET rows == {i \in items : i.orderId = o.id}
          staged == C39_StagedItems(o) IN
      IF \E k \in 1..Len(staged) : ~staged[k]
      THEN rows = {}
      ELSE Cardinality(rows) = Len(staged)

\* ---- C40
\* C40: after any sequence of verify, capture and webhook requests on a
\* created PaymentOrder, refund events among them, its status is one of
\* created, authorized, paid, captured or failed: never refunded.
C40_NeverRefunded ==
  po.status \in {"created", "authorized", "paid", "captured", "failed"}

\* A refund event was handled for a captured payment.
C40_Witness ==
  /\ Quiescent
  /\ Last.kind \in RefundEvents /\ Last.code = 200
  /\ po.status = "captured"
  /\ po.paymentId = Last.pid
====
